---- MODULE Spec2Model ----
(***************************************************************************)
(* A model of the crypto-analysis toy: the CryptoAnalyzer class            *)
(* (src/src/crypto_analysis.py), the tabular helpers load_and_clean_data   *)
(* and filter_data (src/src/data_analysis.py), and plot_time_series        *)
(* (src/src/data_visualization.py), the one plotting helper that writes    *)
(* into the frame it is handed.                                            *)
(*                                                                         *)
(* Numbers.  Prices are whole USD.  Volumes are kept in thousands (the     *)
(* log-normal draw exp(10 + z) is tabulated in thousands), so that         *)
(* price * volume * 1000 stays inside TLC's 32-bit integers.  Quotients    *)
(* that the code computes in floating point (mean, variance, return) are   *)
(* kept exact as [num, den] pairs; den = 0 stands for NaN.                 *)
(*                                                                         *)
(* Time.  Timestamps are integer ticks, TicksPerDay ticks to a day.        *)
(*                                                                         *)
(* Optional values.  None is the empty sequence, a present value x is the  *)
(* one-element sequence <<x>>.                                             *)
(***************************************************************************)
EXTENDS Integers, Sequences, FiniteSets

VARIABLES symbol, data, fs, pc, metrics, outcome, log, fs0, seen,
          csv, df, conds, readcsv, out, passes

vars == <<symbol, data, fs, pc, metrics, outcome, log, fs0, seen,
          csv, df, conds, readcsv, out, passes>>

analyzerVars == <<symbol, data, fs, pc, metrics, outcome, log, fs0, seen>>
helperVars == <<csv, df, conds, readcsv, out, passes>>

(***************************************************************************)
(* Bounds of the model.                                                    *)
(***************************************************************************)
MaxDays == 2

MaxRows == 2

(***************************************************************************)
(* Generic helpers.                                                        *)
(***************************************************************************)
None == << >>

Some(x) == <<x>>

Range(s) == {s[i] : i \in 1..Len(s)}

SeqMax(s) == CHOOSE x \in Range(s) : \A y \in Range(s) : y <= x

SeqMin(s) == CHOOSE x \in Range(s) : \A y \in Range(s) : x <= y

RECURSIVE SeqSum(_)
SeqSum(s) == IF s = << >> THEN 0 ELSE s[1] + SeqSum(Tail(s))

(***************************************************************************)
(* Program constants of generate_mock_data; TicksPerDay is the length of   *)
(* a day in clock ticks.                                                   *)
(***************************************************************************)
TicksPerDay == 2

base_price == 20000

TrendTop == 10000

VolatilitySigma == 1000

VolumeMu == 10

VolumeSigma == 1

CapFactor == 1000

\* datetime.now(): the instants at which generate_mock_data may be called.
Clock == {6, 7}

\* Standard-normal draws behind np.random.normal(0, 1000, n).
ZVolatility == {-3, 3}

\* Standard-normal draws behind np.random.lognormal(10, 1, n).
ZVolume == {-1, 1}

Days == -1..MaxDays

\* exp(k) in thousands, rounded: e^9 = 8103, e^10 = 22026, e^11 = 59874.
ExpThousands(k) == CASE k = 9 -> 8 [] k = 10 -> 22 [] k = 11 -> 60

\* timedelta(days=days)
Timedelta(days) == days * TicksPerDay

\* pd.date_range(start, end, freq='D'): start, start + 1 day, ... while <= end.
DateRange(start, end) ==
    IF end < start THEN << >>
    ELSE [i \in 1..((end - start) \div TicksPerDay + 1) |->
              start + (i - 1) * TicksPerDay]

\* np.linspace(lo, hi, n), rounded down to whole units.
Linspace(lo, hi, n) ==
    IF n = 0 THEN << >>
    ELSE IF n = 1 THEN <<lo>>
    ELSE [i \in 1..n |-> lo + ((hi - lo) * (i - 1)) \div (n - 1)]

\* np.random.normal(mu, sigma, n), z the underlying standard-normal draws.
Normal(mu, sigma, z) == [i \in 1..Len(z) |-> mu + sigma * z[i]]

\* A plausible slip: the volume drawn from a normal, as the volatility is.
LogNormalAsNormal(mu, sigma, z) == [i \in 1..Len(z) |-> sigma * z[i]]

\* np.random.lognormal(mu, sigma, n) = exp(normal(mu, sigma, n)).
LogNormal(mu, sigma, z) == [i \in 1..Len(z) |-> ExpThousands(mu + sigma * z[i])]

\* Element-wise arithmetic of equally long arrays.
ArrAdd(a, b) == [i \in 1..Len(a) |-> a[i] + b[i]]

ArrMul(a, b) == [i \in 1..Len(a) |-> a[i] * b[i]]

ArrScale(a, k) == [i \in 1..Len(a) |-> a[i] * k]

ArrShift(k, a) == [i \in 1..Len(a) |-> k + a[i]]

\* The draws of length n: every sequence of draws, and the sequences that
\* repeat one draw.
Draws(Z, n) == [1..n -> Z]

FlatDraws(Z, n) == {[i \in 1..n |-> z] : z \in Z}

\* A slip in the start date: one day too few.
MockDatesShort(now, days) ==
    DateRange(now - Timedelta(days) + TicksPerDay, now)

\* Lines 37-39: the dates of the table.
MockDates(now, days) == DateRange(now - Timedelta(days), now)

\* A slip: the factor 1000 applied to the volume column instead.
MockMarketCapSlip(prices, volume) == ArrMul(prices, volume)

\* Line 63.
MockMarketCap(prices, volume) == ArrScale(ArrMul(prices, volume), CapFactor)

\* Line 64.
MockTradingVolume(prices, volume) == ArrMul(volume, prices)

\* Lines 36-73: the table generate_mock_data builds from the clock and the
\* random draws zp (volatility) and zv (volume).
MockTable(now, days, zp, zv) ==
    LET dates == MockDates(now, days)
        trend == Linspace(0, TrendTop, Len(dates))
        volatility == Normal(0, VolatilitySigma, zp)
        prices == ArrAdd(ArrShift(base_price, trend), volatility)
        volume == LogNormal(VolumeMu, VolumeSigma, zv)
    IN  [fecha |-> dates,
         precio |-> prices,
         volumen |-> volume,
         market_cap |-> MockMarketCap(prices, volume),
         trading_volume |-> MockTradingVolume(prices, volume)]

(***************************************************************************)
(* calculate_metrics.                                                      *)
(***************************************************************************)
MetricKeys == <<"precio_actual", "precio_maximo", "precio_minimo",
                "volumen_promedio", "volatilidad", "retorno_total",
                "market_cap_actual">>

\* Series.mean()
Mean(s) == [num |-> SeqSum(s), den |-> Len(s)]

\* Series.std() with ddof = 1, kept as the variance it is the root of:
\* sum over i < j of (x_i - x_j)^2, over n (n - 1); NaN (den = 0) for n = 1.
Std(s) ==
    LET n == Len(s)
        pairs == {p \in (1..n) \X (1..n) : p[1] < p[2]}
        sq[P \in SUBSET pairs] ==
            IF P = {} THEN 0
            ELSE LET p == CHOOSE q \in P : TRUE
                 IN  (s[p[1]] - s[p[2]]) * (s[p[1]] - s[p[2]]) + sq[P \ {p}]
    IN  [num |-> sq[pairs], den |-> n * (n - 1)]

\* A slip: the return taken from the extreme prices.
MetricsOfExtremes(t) ==
    [precio_actual |-> SeqMax(t.precio),
     precio_maximo |-> SeqMax(t.precio),
     precio_minimo |-> SeqMin(t.precio),
     volumen_promedio |-> Mean(t.volumen),
     volatilidad |-> Std(t.precio),
     retorno_total |->
         [num |-> 100 * (SeqMax(t.precio) - SeqMin(t.precio)),
          den |-> SeqMin(t.precio)],
     market_cap_actual |-> t.market_cap[Len(t.market_cap)]]

\* Lines 90-98 on a table with at least one row.
MetricsOf(t) ==
    [precio_actual |-> t.precio[Len(t.precio)],
     precio_maximo |-> SeqMax(t.precio),
     precio_minimo |-> SeqMin(t.precio),
     volumen_promedio |-> Mean(t.volumen),
     volatilidad |-> Std(t.precio),
     retorno_total |->
         [num |-> 100 * (t.precio[Len(t.precio)] - t.precio[1]),
          den |-> t.precio[1]],
     market_cap_actual |-> t.market_cap[Len(t.market_cap)]]

\* What a call did: op with argument arg (None when it takes none that
\* matters here) returned, raised exc, or is still running.
Returned(op, m) ==
    [op |-> op, arg |-> None, kind |-> "returned", exc |-> "", metrics |-> m]

Raised(op, e) ==
    [op |-> op, arg |-> None, kind |-> "raised", exc |-> e, metrics |-> None]

Running(op) ==
    [op |-> op, arg |-> None, kind |-> "running", exc |-> "", metrics |-> None]

\* A slip: no guard, so the first subscript of None fails instead.
CalcMetricsUnguarded(d) ==
    IF d = None THEN Raised("calculate_metrics", "TypeError")
    ELSE IF Len(d[1].precio) = 0 THEN Raised("calculate_metrics", "IndexError")
    ELSE Returned("calculate_metrics", Some(MetricsOf(d[1])))

\* Lines 85-100: the result of calculate_metrics on self.data = d.
CalcMetrics(d) ==
    IF d = None THEN Raised("calculate_metrics", "ValueError")
    ELSE IF Len(d[1].precio) = 0 THEN Raised("calculate_metrics", "IndexError")
    ELSE Returned("calculate_metrics", Some(MetricsOf(d[1])))

\* A slip: the method trims the table it reads (self.data = self.data.iloc[1:]).
CalculateMetricsTrimming(d) ==
    IF d = None \/ Len(d[1].precio) = 0
    THEN [data |-> d, result |-> CalcMetrics(d)]
    ELSE LET t == [c \in DOMAIN d[1] |-> Tail(d[1][c])]
         IN  [data |-> Some(t), result |-> CalcMetrics(d)]

\* Lines 77-100 as a whole: what the call leaves in self.data (the body holds
\* no assignment to it) and what it returns or raises.
CalculateMetricsEffect(d) == [data |-> d, result |-> CalcMetrics(d)]

(***************************************************************************)
(* The charts and the report directory.                                    *)
(***************************************************************************)
Charts == <<"plot_price_history", "plot_volume", "plot_price_distribution",
            "plot_market_cap">>

ChartSet == Range(Charts)

ChartFile(c) ==
    CASE c = "plot_price_history" -> "price_history.png"
      [] c = "plot_volume" -> "volume.png"
      [] c = "plot_price_distribution" -> "price_distribution.png"
      [] c = "plot_market_cap" -> "market_cap.png"

ChartTitle(c) ==
    CASE c = "plot_price_history" -> "Historial de Precios"
      [] c = "plot_volume" -> "Volumen de Trading"
      [] c = "plot_price_distribution" -> "Distribucion de Precios"
      [] c = "plot_market_cap" -> "Capitalizacion de Mercado"

FileNames == {ChartFile(c) : c \in ChartSet} \cup {"metrics.txt"}

\* The content plt.savefig leaves in a chart file: the figure's title line.
Figure(c, sym) == << <<"figure", ChartTitle(c), sym>> >>

NoFiles == [f \in FileNames |-> None]

AbsentDir == [exists |-> FALSE, files |-> NoFiles]

EmptyDir == [exists |-> TRUE, files |-> NoFiles]

\* A directory left behind by an earlier run for another symbol.
StaleDir ==
    [exists |-> TRUE,
     files |-> [f \in FileNames |->
                   IF f = "metrics.txt" THEN Some(<< <<"stale">> >>)
                   ELSE None]]

\* Lines 189-190: os.makedirs unless the path exists.
EnsureDir(d) == IF d.exists THEN d ELSE [d EXCEPT !.exists = TRUE]

\* open(path, 'w') / savefig(path) inside the directory.
WriteFile(d, name, content) == [d EXCEPT !.files[name] = Some(content)]

\* Lines 102-177: one chart method on self.data = d with save_path = save
\* (None or a file name of the report directory).  It reads columns of
\* self.data, which fails on None before anything is saved.
PlotEffect(c, d, sym, save, dir) ==
    IF d = None
    THEN [data |-> d, dir |-> dir, result |-> Raised(c, "TypeError")]
    ELSE [data |-> d,
          dir |-> IF save = None THEN dir
                  ELSE WriteFile(dir, save[1], Figure(c, sym)),
          result |-> Returned(c, None)]

\* Lines 202-206: the text of metrics.txt, one line per metric after the
\* three header lines (the formatted value of a line is not kept).
MetricsText(sym, m) ==
    << <<"Reporte de Analisis", sym>>, <<"=">>, << >> >>
        \o [i \in 1..Len(MetricKeys) |-> <<MetricKeys[i]>>]

\* A slip: metrics.txt written before the charts are saved.
ReportStepsWriteFirst ==
    <<"calculate_metrics", "write_metrics", "plot_price_history",
      "plot_volume", "plot_price_distribution", "plot_market_cap">>

\* Lines 192-206: the statements of generate_report after the directory
\* check, in program order.
ReportSteps ==
    <<"calculate_metrics", "plot_price_history", "plot_volume",
      "plot_price_distribution", "plot_market_cap", "write_metrics">>

StepIndex(p) == CHOOSE i \in 1..Len(ReportSteps) : ReportSteps[i] = p

NextStep(p) ==
    IF StepIndex(p) = Len(ReportSteps) THEN "idle"
    ELSE ReportSteps[StepIndex(p) + 1]

(***************************************************************************)
(* Initial states.                                                         *)
(***************************************************************************)
Symbols == {"BTC", "ETH"}

\* Lines 15-23: a fresh analyzer, in a file system whose report directory
\* is absent, empty or left over.
InitAnalyzer ==
    /\ symbol \in Symbols
    /\ data = None
    /\ fs \in {AbsentDir, EmptyDir, StaleDir}
    /\ pc = "idle"
    /\ metrics = None
    /\ outcome = Returned("__init__", None)
    /\ log = << >>
    /\ fs0 = fs
    /\ seen = None

(***************************************************************************)
(* The operations of CryptoAnalyzer.  outcome is what the most recent call *)
(* returned or raised, fs0 the file system when it was entered, log the    *)
(* steps a generate_report call has performed so far, seen the metrics     *)
(* returned since the table was last generated.                            *)
(***************************************************************************)
\* Lines 25-75.
GenerateMockData(days, now, zp, zv) ==
    /\ pc = "idle"
    /\ data' = Some(MockTable(now, days, zp, zv))
    /\ outcome' = [Returned("generate_mock_data", None) EXCEPT !.arg = Some(days)]
    /\ seen' = None
    /\ log' = << >>
    /\ fs0' = fs
    /\ UNCHANGED <<symbol, fs, pc, metrics, helperVars>>

\* Lines 77-100, called on its own.
CalculateMetrics ==
    /\ pc = "idle"
    /\ LET e == CalculateMetricsEffect(data)
       IN  /\ data' = e.data
           /\ outcome' = e.result
           /\ seen' = IF e.result.kind = "returned" THEN e.result.metrics
                      ELSE seen
    /\ log' = << >>
    /\ fs0' = fs
    /\ UNCHANGED <<symbol, fs, pc, metrics, helperVars>>

\* Lines 102-177, a chart method called on its own with the default
\* save_path = None.
Plot(c) ==
    /\ pc = "idle"
    /\ LET e == PlotEffect(c, data, symbol, None, fs)
       IN  /\ data' = e.data
           /\ fs' = e.dir
           /\ outcome' = e.result
    /\ log' = << >>
    /\ fs0' = fs
    /\ UNCHANGED <<symbol, pc, metrics, seen, helperVars>>

plot_price_history == Plot("plot_price_history")

plot_volume == Plot("plot_volume")

plot_price_distribution == Plot("plot_price_distribution")

plot_market_cap == Plot("plot_market_cap")

\* Lines 179-190: generate_report is entered and the directory ensured.
GenerateReport ==
    /\ pc = "idle"
    /\ fs0' = fs
    /\ fs' = EnsureDir(fs)
    /\ log' = <<"ensure_dir">>
    /\ metrics' = None
    /\ outcome' = Running("generate_report")
    /\ pc' = ReportSteps[1]
    /\ UNCHANGED <<symbol, data, seen, helperVars>>

\* Line 193.  An exception of calculate_metrics leaves generate_report.
ReportCalculateMetrics ==
    /\ pc = "calculate_metrics"
    /\ LET e == CalculateMetricsEffect(data)
       IN  /\ data' = e.data
           /\ log' = Append(log, "calculate_metrics")
           /\ IF e.result.kind = "raised"
              THEN /\ outcome' = Raised("generate_report", e.result.exc)
                   /\ pc' = "idle"
                   /\ metrics' = None
              ELSE /\ metrics' = e.result.metrics
                   /\ pc' = NextStep(pc)
                   /\ UNCHANGED outcome
    /\ UNCHANGED <<symbol, fs, fs0, seen, helperVars>>

\* Lines 196-199: the chart method the report is at, with its file name.
ReportPlot ==
    /\ pc \in ChartSet
    /\ LET e == PlotEffect(pc, data, symbol, Some(ChartFile(pc)), fs)
       IN  /\ data' = e.data
           /\ fs' = e.dir
           /\ IF e.result.kind = "raised"
              THEN /\ outcome' = Raised("generate_report", e.result.exc)
                   /\ pc' = "idle"
                   /\ metrics' = None
                   /\ UNCHANGED log
              ELSE /\ log' = Append(log, ChartFile(pc))
                   /\ pc' = NextStep(pc)
                   /\ metrics' = IF NextStep(pc) = "idle" THEN None ELSE metrics
                   /\ outcome' = IF NextStep(pc) = "idle"
                                 THEN Returned("generate_report", None)
                                 ELSE outcome
    /\ UNCHANGED <<symbol, fs0, seen, helperVars>>

\* Lines 201-208: metrics.txt is written from the metrics computed at line
\* 193 and the call returns; the local metrics goes with it.
ReportWriteMetrics ==
    /\ pc = "write_metrics"
    /\ fs' = WriteFile(fs, "metrics.txt", MetricsText(symbol, metrics[1]))
    /\ log' = Append(log, "metrics.txt")
    /\ pc' = NextStep(pc)
    /\ metrics' = IF NextStep(pc) = "idle" THEN None ELSE metrics
    /\ outcome' = IF NextStep(pc) = "idle"
                  THEN Returned("generate_report", None)
                  ELSE outcome
    /\ UNCHANGED <<symbol, data, fs0, seen, helperVars>>

(***************************************************************************)
(* The tabular helpers of data_analysis.py.  A frame is its columns and    *)
(* its rows in order; a row keeps its index label idx and one cell per     *)
(* column: a string as read from the file, "NaN" for a missing value, or,  *)
(* once pd.to_datetime has converted the column, a timestamp or "NaT".     *)
(***************************************************************************)
Columns == <<"a", "b">>

\* The cells pd.read_csv yields: a word, a date in text, a missing value.
Cells == {"x", "2024-01-01", "NaN"}

CellRows == [a : Cells, b : Cells]

MkRow(i, c) == [idx |-> i, a |-> c.a, b |-> c.b]

\* pd.DataFrame()
EmptyFrame == [columns |-> << >>, rows |-> << >>]

\* The frames pd.read_csv can return: a RangeIndex 0..n-1 over parsed rows.
Frames ==
    UNION {{[columns |-> Columns, rows |-> [i \in 1..n |-> MkRow(i - 1, c[i])]] :
               c \in [1..n -> CellRows]} : n \in 0..MaxRows}

SameCells(r, q) == r.a = q.a /\ r.b = q.b

\* pd.isna
IsNull(cell) == cell \in {"NaN", "NaT"}

HasNull(r) == IsNull(r.a) \/ IsNull(r.b)

\* DataFrame.drop_duplicates(): the first of equal rows survives, in order.
DropDuplicates(f) ==
    [f EXCEPT !.rows =
        LET keep(i) == \A j \in 1..(i - 1) : ~SameCells(f.rows[j], f.rows[i])
            sel[i \in 0..Len(f.rows)] ==
                IF i = 0 THEN << >>
                ELSE IF keep(i) THEN Append(sel[i - 1], f.rows[i]) ELSE sel[i - 1]
        IN  sel[Len(f.rows)]]

\* DataFrame.dropna(): rows with a missing value go.
DropNa(f) == [f EXCEPT !.rows = SelectSeq(f.rows, LAMBDA r : ~HasNull(r))]

FrameResult(f) == [kind |-> "returned", exc |-> "", frame |-> f]

FrameError(e) == [kind |-> "raised", exc |-> e, frame |-> EmptyFrame]

NoResult == [kind |-> "none", exc |-> "", frame |-> EmptyFrame]

\* What pd.read_csv(file_path) can do: raise, or return the parsed frame.
ReadErrors == {"FileNotFoundError", "EmptyDataError", "ParserError"}

\* A slip: only missing files are caught.
LoadAndCleanCatchingLess(r) ==
    IF r.kind = "raised"
    THEN IF r.exc = "FileNotFoundError" THEN FrameResult(EmptyFrame)
         ELSE FrameError(r.exc)
    ELSE FrameResult(DropNa(DropDuplicates(r.frame)))

\* Lines 17-26: load_and_clean_data, r the outcome of pd.read_csv.
LoadAndClean(r) ==
    IF r.kind = "raised" THEN FrameResult(EmptyFrame)
    ELSE FrameResult(DropNa(DropDuplicates(r.frame)))

\* pd.to_datetime on one cell: a date in text becomes a timestamp, a
\* missing value NaT, a timestamp stays; a word cannot be parsed.
Parseable(cell) == cell # "x"

ToDatetime(cell) ==
    CASE cell = "2024-01-01" -> "Timestamp(2024-01-01)"
      [] cell = "Timestamp(2024-01-01)" -> "Timestamp(2024-01-01)"
      [] IsNull(cell) -> "NaT"

\* Element-wise ==: a missing value equals nothing, not even itself; a
\* timestamp equals the text that parses to it.
PdEq(cell, value) ==
    /\ ~IsNull(cell)
    /\ ~IsNull(value)
    /\ \/ cell = value
       \/ cell = "Timestamp(2024-01-01)" /\ value = "2024-01-01"

HasColumn(f, c) == \E i \in 1..Len(f.columns) : f.columns[i] = c

Cell(r, c) == IF c = "a" THEN r.a ELSE r.b

SetCell(r, c, v) == IF c = "a" THEN [r EXCEPT !.a = v] ELSE [r EXCEPT !.b = v]

\* data_visualization.py, lines 7-12: set_style.  plt.style.use('seaborn')
\* returns where the installed matplotlib still ships that style
\* (seaborn_style_ok) and raises OSError where it has been removed
\* (matplotlib 3.8 and later).
SetStyle(seaborn_style_ok) == IF seaborn_style_ok THEN "returned" ELSE "OSError"

\* data_visualization.py, lines 83-93: what plot_time_series leaves in the
\* caller's df.  Line 83 calls set_style, whose OSError ends the call with
\* df untouched.  Line 84 assigns the converted date column into df itself;
\* df[date_column] raises KeyError for a missing column and pd.to_datetime
\* raises for a cell it cannot parse, both before the assignment.  The
\* lines after 84 read df and draw; they assign nothing to it, whether
\* they finish or raise.
PlotTimeSeriesEffect(f, date_column, seaborn_style_ok) ==
    IF SetStyle(seaborn_style_ok) # "returned" THEN f
    ELSE IF ~HasColumn(f, date_column) THEN f
    ELSE IF \E i \in 1..Len(f.rows) : ~Parseable(Cell(f.rows[i], date_column)) THEN f
    ELSE [f EXCEPT !.rows =
            [i \in 1..Len(f.rows) |->
                SetCell(f.rows[i], date_column,
                        ToDatetime(Cell(f.rows[i], date_column)))]]

\* A slip: the mask is overwritten, so only the last condition counts.
FilterMaskLastOnly(f, cs) ==
    [i \in 1..Len(f.rows) |->
        IF cs = << >> THEN TRUE
        ELSE PdEq(Cell(f.rows[i], cs[Len(cs)][1]), cs[Len(cs)][2])]

\* Lines 104-106: the mask after the loop over conditions.items(), cs the
\* items in dictionary order, every column of cs a column of f.
FilterMask(f, cs) ==
    LET m[k \in 0..Len(cs)] ==
            IF k = 0 THEN [i \in 1..Len(f.rows) |-> TRUE]
            ELSE [i \in 1..Len(f.rows) |->
                     m[k - 1][i] /\ PdEq(Cell(f.rows[i], cs[k][1]), cs[k][2])]
    IN  m[Len(cs)]

\* df[mask]
BoolIndex(f, mask) ==
    [f EXCEPT !.rows =
        LET sel[i \in 0..Len(f.rows)] ==
                IF i = 0 THEN << >>
                ELSE IF mask[i] THEN Append(sel[i - 1], f.rows[i]) ELSE sel[i - 1]
        IN  sel[Len(f.rows)]]

\* Lines 92-107: filter_data; df[column] raises KeyError for a column the
\* frame does not have.
FilterData(f, cs) ==
    IF \E k \in 1..Len(cs) : ~HasColumn(f, cs[k][1])
    THEN FrameError("KeyError")
    ELSE FrameResult(BoolIndex(f, FilterMask(f, cs)))

\* The condition dictionaries tried: items in order, no column twice.
CondColumns == {"a", "b", "c"}

CondValues == {"x", "2024-01-01"}

CondItems == (CondColumns \X CondValues) \cup {<<"a", "NaN">>}

Conditions ==
    {<< >>} \cup {<<p>> : p \in CondItems}
        \cup {pq \in CondItems \X CondItems : pq[1][1] # pq[2][1]}

\* Lines 92-107 as a whole: what the call leaves in the caller's df (the
\* body only reads it) and what it returns or raises.
FilterDataEffect(f, cs) == [df |-> f, result |-> FilterData(f, cs)]

\* The helpers at rest, beside a fresh analyzer.
HelpersIdle ==
    /\ csv = EmptyFrame
    /\ df = EmptyFrame
    /\ conds = << >>
    /\ readcsv = NoResult
    /\ out = NoResult
    /\ passes = 0

AnalyzerIdle ==
    /\ symbol = "BTC"
    /\ data = None
    /\ fs = AbsentDir
    /\ pc = "idle"
    /\ metrics = None
    /\ outcome = Returned("__init__", None)
    /\ log = << >>
    /\ fs0 = fs
    /\ seen = None

(***************************************************************************)
(* The operations on frames.  csv is what the CSV file parses to, df the   *)
(* caller's frame (first read from that file) that is filtered and         *)
(* plotted, readcsv what pd.read_csv did in the most recent load, conds    *)
(* the conditions of the most recent filter, out what the most recent      *)
(* load or filter returned or raised, passes how often (once, or more      *)
(* than once) those conditions have been applied since.                    *)
(***************************************************************************)
\* Lines 7-26.
load_and_clean_data(r) ==
    /\ readcsv' = r
    /\ out' = LoadAndClean(r)
    /\ conds' = << >>
    /\ passes' = 0
    /\ UNCHANGED <<csv, df, analyzerVars>>

\* Lines 92-107.
filter_data(cs) ==
    /\ LET e == FilterDataEffect(df, cs)
       IN  /\ df' = e.df
           /\ out' = e.result
    /\ conds' = cs
    /\ passes' = 1
    /\ readcsv' = NoResult
    /\ UNCHANGED <<csv, analyzerVars>>

\* Lines 92-107 again, on the frame the previous filter_data returned and
\* with the same conditions.
filter_data_again ==
    /\ passes > 0
    /\ out.kind = "returned"
    /\ out' = FilterDataEffect(out.frame, conds).result
    /\ passes' = 2
    /\ UNCHANGED <<csv, df, conds, readcsv, analyzerVars>>

\* data_visualization.py, lines 70-93, on either kind of matplotlib.  The
\* call returns None or raises; neither is a frame, so no load or filter
\* result is current after it.
plot_time_series(date_column, value_column, seaborn_style_ok) ==
    /\ df' = PlotTimeSeriesEffect(df, date_column, seaborn_style_ok)
    /\ conds' = << >>
    /\ readcsv' = NoResult
    /\ out' = NoResult
    /\ passes' = 0
    /\ UNCHANGED <<csv, analyzerVars>>

(***************************************************************************)
(* Specifications.                                                         *)
(***************************************************************************)
\* The analyzer under every operation; each table repeats one draw.
Init == InitAnalyzer /\ HelpersIdle

Next ==
    \/ \E days \in Days, now \in Clock :
         \E zp \in FlatDraws(ZVolatility, Len(MockDates(now, days))),
            zv \in FlatDraws(ZVolume, Len(MockDates(now, days))) :
              GenerateMockData(days, now, zp, zv)
    \/ CalculateMetrics
    \/ plot_price_history
    \/ plot_volume
    \/ plot_price_distribution
    \/ plot_market_cap
    \/ GenerateReport
    \/ ReportCalculateMetrics
    \/ ReportPlot
    \/ ReportWriteMetrics

Spec == Init /\ [][Next]_vars

\* The generated series and its metrics under every sequence of draws.
NextSeries ==
    \/ \E days \in Days, now \in Clock :
         \E zp \in Draws(ZVolatility, Len(MockDates(now, days))),
            zv \in Draws(ZVolume, Len(MockDates(now, days))) :
              GenerateMockData(days, now, zp, zv)
    \/ CalculateMetrics

SpecSeries == Init /\ [][NextSeries]_vars

\* The tabular helpers on every small frame.
InitHelpers ==
    /\ AnalyzerIdle
    /\ csv \in Frames
    /\ df = csv
    /\ conds = << >>
    /\ readcsv = NoResult
    /\ out = NoResult
    /\ passes = 0

NextHelpers ==
    \/ \E r \in {FrameError(e) : e \in ReadErrors} \cup {FrameResult(csv)} :
         load_and_clean_data(r)
    \/ \E cs \in Conditions : filter_data(cs)
    \/ filter_data_again
    \/ \E date_column \in CondColumns, value_column \in CondColumns,
          seaborn_style_ok \in BOOLEAN :
         plot_time_series(date_column, value_column, seaborn_style_ok)

SpecHelpers == InitHelpers /\ [][NextHelpers]_vars

(***************************************************************************)
(* Properties.                                                             *)
(***************************************************************************)
IsPrefix(s, t) == Len(s) <= Len(t) /\ \A i \in 1..Len(s) : s[i] = t[i]

Rows(t) == Len(t.fecha)

\* C1: calculate_metrics raises ValueError exactly when self.data is None
\* and returns a metrics dictionary otherwise, the table left as it was.
\* (The table is not changed by the call, so the state after it shows the
\* table it was called on.)
C1_ValueErrorIffNoData ==
    outcome.op = "calculate_metrics" =>
        IF data = None
        THEN outcome.kind = "raised" /\ outcome.exc = "ValueError"
        ELSE outcome.kind = "returned" /\ outcome.metrics # None

\* C2: in every row of a generated table, trading_volume = volumen * precio
\* and market_cap = precio * volumen * 1000 = 1000 * trading_volume.
C2_DerivedColumns ==
    data # None =>
        LET t == data[1]
        IN  /\ Len(t.market_cap) = Len(t.precio)
            /\ Len(t.trading_volume) = Len(t.precio)
            /\ Len(t.volumen) = Len(t.precio)
            /\ \A i \in 1..Len(t.precio) :
                 /\ t.trading_volume[i] = t.volumen[i] * t.precio[i]
                 /\ t.market_cap[i] = t.precio[i] * t.volumen[i] * 1000
                 /\ t.market_cap[i] = 1000 * t.trading_volume[i]

C2_Witness ==
    /\ data # None
    /\ Rows(data[1]) = MaxDays + 1
    /\ \E i, j \in 1..Rows(data[1]) :
         /\ data[1].volumen[i] # data[1].volumen[j]
         /\ data[1].precio[i] > data[1].precio[j]
         /\ data[1].market_cap[i] < data[1].market_cap[j]

\* C3: every row of a generated table has a volume strictly above 0.
C3_VolumePositive ==
    data # None => \A i \in 1..Len(data[1].volumen) : data[1].volumen[i] > 0

C3_Witness ==
    /\ data # None
    /\ Len(data[1].volumen) = MaxDays + 1
    /\ \E i, j \in 1..Len(data[1].volumen) :
         data[1].volumen[i] < data[1].volumen[j]

\* C4: generate_mock_data(days) with days >= 0 leaves a table of days + 1
\* rows, one per day: the dates increase by exactly one day from row to row,
\* the first is days days before the last, and every column is as long.
C4_OneRowPerDay ==
    (outcome.op = "generate_mock_data" /\ outcome.arg[1] >= 0) =>
        LET t == data[1]
            days == outcome.arg[1]
        IN  /\ Len(t.fecha) = days + 1
            /\ \A i \in 1..(Len(t.fecha) - 1) :
                 /\ t.fecha[i] < t.fecha[i + 1]
                 /\ t.fecha[i + 1] - t.fecha[i] = TicksPerDay
            /\ t.fecha[Len(t.fecha)] - t.fecha[1] = days * TicksPerDay
            /\ \A c \in {"precio", "volumen", "market_cap", "trading_volume"} :
                 Len(t[c]) = days + 1

C4_Witness ==
    /\ outcome.op = "generate_mock_data"
    /\ outcome.arg = Some(MaxDays)
    /\ Len(data[1].fecha) = MaxDays + 1
    /\ data[1].fecha[1] < data[1].fecha[MaxDays + 1]

\* C5: load_and_clean_data always returns: the empty table when reading
\* raised, else the rows read that hold no missing value and repeat no
\* earlier row, in their order.
C5_LoadNeverRaises ==
    readcsv.kind # "none" =>
        /\ out.kind = "returned"
        /\ readcsv.kind = "raised" => out.frame = EmptyFrame
        /\ readcsv.kind = "returned" =>
             LET src == readcsv.frame.rows
                 res == out.frame.rows
                 kept(i) == /\ ~HasNull(src[i])
                            /\ \A j \in 1..(i - 1) : ~SameCells(src[j], src[i])
             IN  /\ out.frame.columns = readcsv.frame.columns
                 /\ \A i \in 1..Len(src) :
                      kept(i) <=> \E k \in 1..Len(res) : res[k] = src[i]
                 /\ \A k \in 1..Len(res) : \E i \in 1..Len(src) : res[k] = src[i]
                 /\ \A k \in 1..(Len(res) - 1) : res[k].idx < res[k + 1].idx

C5_Witness ==
    /\ readcsv.kind = "returned"
    /\ Len(readcsv.frame.rows) = MaxRows
    /\ Len(out.frame.rows) = 1
    /\ \A i \in 1..Len(readcsv.frame.rows) : ~HasNull(readcsv.frame.rows[i])

\* C6: calculate_metrics and the four chart methods leave data and symbol
\* as they were, and a calculate_metrics call returns the metrics the
\* calls before it returned since the table was generated.
C6_ReadOnly ==
    [][outcome'.op \in ChartSet \cup {"calculate_metrics"} =>
          /\ data' = data
          /\ symbol' = symbol
          /\ (outcome'.op = "calculate_metrics" /\ outcome'.kind = "returned"
                /\ seen # None) => outcome'.metrics = seen]_vars

C6_Witness ==
    /\ outcome.op = "calculate_metrics"
    /\ outcome.kind = "returned"
    /\ seen = outcome.metrics
    /\ Rows(data[1]) = MaxDays + 1

\* C7: on a non-empty table calculate_metrics returns the last price, the
\* largest and the smallest price, the return (last / first - 1) * 100 and
\* the last market cap; minimum <= current <= maximum; on a single row the
\* return is 0 and the three prices coincide.
C7_Metrics ==
    (outcome.op = "calculate_metrics" /\ outcome.kind = "returned") =>
        LET t == data[1]
            m == outcome.metrics[1]
            n == Rows(t)
        IN  /\ n >= 1
            /\ m.precio_actual = t.precio[n]
            /\ \E i \in 1..n : m.precio_maximo = t.precio[i]
            /\ \A i \in 1..n : t.precio[i] <= m.precio_maximo
            /\ \E i \in 1..n : m.precio_minimo = t.precio[i]
            /\ \A i \in 1..n : m.precio_minimo <= t.precio[i]
            /\ m.precio_minimo <= m.precio_actual
            /\ m.precio_actual <= m.precio_maximo
            /\ m.retorno_total.den = t.precio[1]
            /\ m.retorno_total.num = 100 * (t.precio[n] - t.precio[1])
            /\ m.market_cap_actual = t.market_cap[n]
            /\ m.market_cap_actual = m.precio_actual * t.volumen[n] * 1000
            /\ n = 1 => /\ m.retorno_total.num = 0
                        /\ m.retorno_total.den # 0
                        /\ m.precio_actual = m.precio_maximo
                        /\ m.precio_actual = m.precio_minimo

C7_Witness ==
    /\ outcome.op = "calculate_metrics"
    /\ outcome.kind = "returned"
    /\ Rows(data[1]) = MaxDays + 1
    /\ outcome.metrics[1].precio_minimo < outcome.metrics[1].precio_actual
    /\ outcome.metrics[1].precio_actual < outcome.metrics[1].precio_maximo

\* The steps of a complete report, in order.
ReportOrder ==
    <<"ensure_dir", "calculate_metrics", "price_history.png", "volume.png",
      "price_distribution.png", "market_cap.png", "metrics.txt">>

\* C8: generate_report ensures the directory, computes the metrics, saves
\* the four charts and only then writes metrics.txt; when it returns the
\* directory holds the four charts and a metrics.txt with one line per
\* metric, and the table is as it was.
C8_ReportOrder ==
    /\ [](outcome.op = "generate_report" =>
            /\ IsPrefix(log, ReportOrder)
            /\ Len(log) >= 1 => fs.exists
            /\ outcome.kind = "returned" =>
                 /\ log = ReportOrder
                 /\ data # None
                 /\ fs.exists
                 /\ \A c \in ChartSet :
                      fs.files[ChartFile(c)] = Some(Figure(c, symbol))
                 /\ fs.files["metrics.txt"] # None
                 /\ LET text == fs.files["metrics.txt"][1]
                    IN  /\ Len(text) = 3 + Len(MetricKeys)
                        /\ \A k \in 1..Len(MetricKeys) :
                             text[3 + k] = <<MetricKeys[k]>>)
    /\ [][outcome'.op = "generate_report" => data' = data]_vars

C8_Witness ==
    /\ outcome.op = "generate_report"
    /\ outcome.kind = "returned"
    /\ ~fs0.exists
    /\ fs.files["metrics.txt"] # None

\* C9: generate_report on an analyzer without data fails with the
\* ValueError of calculate_metrics before any file is written: the
\* directory exists afterwards, its files are as before, data stays None.
C9_ReportWithoutData ==
    /\ []((outcome.op = "generate_report" /\ data = None) =>
            /\ IsPrefix(log, <<"ensure_dir", "calculate_metrics">>)
            /\ fs.exists
            /\ fs.files = fs0.files
            /\ outcome.kind # "returned"
            /\ pc = "idle" => /\ outcome.kind = "raised"
                              /\ outcome.exc = "ValueError"
                              /\ log = <<"ensure_dir", "calculate_metrics">>)
    /\ [][(outcome'.op = "generate_report" /\ data = None) => data' = None]_vars

C9_Witness ==
    /\ outcome.op = "generate_report"
    /\ outcome.kind = "raised"
    /\ outcome.exc = "ValueError"
    /\ data = None
    /\ ~fs0.exists
    /\ fs.exists

\* The rows of f that equal the given value in every column of cs.
Matching(f, cs) ==
    SelectSeq(f.rows,
              LAMBDA r : \A k \in 1..Len(cs) : PdEq(Cell(r, cs[k][1]), cs[k][2]))

\* C10: filter_data returns exactly the rows whose value equals the given
\* one in every named column, in their order (all rows for no condition);
\* df is left as it was; filtering the result again changes nothing.
C10_FilterConjunction ==
    /\ []((passes > 0 /\ out.kind = "returned") =>
            /\ out.frame.columns = df.columns
            /\ out.frame.rows = Matching(df, conds)
            /\ conds = << >> => out.frame = df)
    /\ [][passes' > 0 => df' = df]_vars

C10_Witness ==
    /\ passes = 2
    /\ out.kind = "returned"
    /\ Len(conds) = 2
    /\ Len(df.rows) = MaxRows
    /\ Len(out.frame.rows) = 1
    /\ df # csv

====
